---- MODULE Spec2Model ----
(***************************************************************************)
(* A model of the dense integer matrix library of src/matrix.c: the heap   *)
(* the library allocates from, the matrix_t objects a caller holds, one    *)
(* text file, and one action per library function.                         *)
(*                                                                         *)
(* A program state is kept in the variables mat, heap and faults; the      *)
(* library functions are operators from such a state (a record st) to the  *)
(* state after the call and the value returned, so that a function calling *)
(* another (matrix_sum calls matrix_allocate) is modelled by composition.  *)
(***************************************************************************)
EXTENDS Integers, Sequences, FiniteSets, TLC

VARIABLES
    mat,        \* the matrix_t objects: handle -> [rows, columns, content]
    heap,       \* every block malloc ever returned, in order of allocation
    faults,     \* the kinds of undefined behaviour executed so far
    file,       \* the text of the one file, a sequence of characters
    last,       \* the call that produced this state, with what it returned
    pending,    \* handles given to matrix_allocate and not to matrix_free since
    paired,     \* every matrix_allocate so far was given a handle not pending
    crashed     \* undefined behaviour ended the process

vars == <<mat, heap, faults, file, last, pending, paired, crashed>>

\* ---------------------------------------------------------------- bounds

\* rows and columns asked of matrix_allocate range over 0..MaxDim
MaxDim == 2
\* malloc returns at most MaxBlocks blocks over a run of allocations and releases
MaxBlocks == 4
\* the heap holds at most MaxHeap blocks, live or freed, over a run of arithmetic
MaxHeap == 8
\* element values and scalars given to the library range over 0..MaxVal
MaxVal == 1
\* the seed of a modelled rand() ranges over 0..MaxRand
MaxRand == 1
\* the file holds at most MaxText characters when the program starts
MaxText == 5

Handles == {"a", "b", "r"}
Dims == 0..MaxDim
Values == 0..MaxVal

\* ------------------------------------------------------------- the heap

\* The null pointer: what a failed malloc returns.
NULL == 0
\* A pointer read from storage malloc returned and nothing wrote yet.
Indeterminate == 0 - 1
\* An int cell is <<v>> once written and <<>> while indeterminate.
Unwritten == <<>>

Empty == [rows |-> 0, columns |-> 0, content |-> NULL]

IsBlock(st, p) == p \in 1..Len(st.heap)
IsLive(st, p) == IsBlock(st, p) /\ st.heap[p].live

Fault(st, f) == [st EXCEPT !.faults = @ \cup {f}]

\* malloc succeeding: a new live block of n cells, none written; its address
\* is Len(heap) + 1, never an address handed out before.
Malloc(st, kind, n, h) ==
    [st EXCEPT !.heap = Append(@, [kind |-> kind, live |-> TRUE, frees |-> 0,
                                   owner |-> h,
                                   data |-> [i \in 1..n |->
                                       IF kind = "ptrs" THEN Indeterminate
                                       ELSE Unwritten]])]

\* free(p): nothing for NULL; freeing a block twice or freeing a pointer that
\* malloc never returned is undefined behaviour, recorded in faults.
FreeNoCount(st, p) ==
    IF p = NULL THEN st
    ELSE IF ~IsBlock(st, p) THEN Fault(st, "wild_free")
    ELSE IF ~st.heap[p].live THEN Fault(st, "double_free")
    ELSE [st EXCEPT !.heap[p].live = FALSE]

Free(st, p) ==
    LET t == FreeNoCount(st, p)
    IN  IF IsBlock(st, p) THEN [t EXCEPT !.heap[p].frees = @ + 1] ELSE t

\* m->content[i] read as a pointer (i counts from 0). Reading through NULL,
\* through a freed block or past the block's end is undefined behaviour; the
\* model records it and goes on with the stale cell.
RowPtr(st, h, i) ==
    LET c == st.mat[h].content
    IN  IF IsBlock(st, c) /\ st.heap[c].kind = "ptrs" /\ i + 1 \in 1..Len(st.heap[c].data)
        THEN st.heap[c].data[i + 1]
        ELSE Indeterminate

RowPtrFaults(st, h, i) ==
    LET c == st.mat[h].content
    IN  IF c = NULL THEN {"null_deref"}
        ELSE IF ~IsBlock(st, c) THEN {"wild_access"}
        ELSE IF ~st.heap[c].live THEN {"use_after_free"}
        ELSE IF i + 1 \notin 1..Len(st.heap[c].data) THEN {"out_of_bounds"}
        ELSE IF st.heap[c].data[i + 1] = Indeterminate THEN {"uninit_read"}
        ELSE {}

\* ---------------------------------------------------- matrix_allocate

\* The loop of lines 20-22: free(m->content[j]) for j = from .. i-1.
RECURSIVE FreeRowsBelow(_, _, _, _)
FreeRowsBelow(st, h, j, i) ==
    IF j >= i THEN st
    ELSE FreeRowsBelow(Free(st, RowPtr(st, h, j)), h, j + 1, i)

\* The loop of lines 16-26 from row i on. failAt is the index, among the
\* rows + 1 calls of malloc, of the call that returns NULL (0: the row-pointer
\* array, k + 1: row k), and rows + 1 when none does.
RECURSIVE AllocRows(_, _, _, _, _, _)
AllocRows(st, h, i, rows, columns, failAt) ==
    IF i >= rows THEN [st |-> st, ret |-> 0]
    ELSE IF failAt = i + 1
    THEN LET c == st.mat[h].content
             s1 == [st EXCEPT !.heap[c].data[i + 1] = NULL]
             s2 == FreeRowsBelow(s1, h, 0, i)
         IN  [st |-> Free(s2, c), ret |-> 0 - 1]
    ELSE LET c == st.mat[h].content
             s1 == Malloc(st, "ints", columns, h)
             s2 == [s1 EXCEPT !.heap[c].data[i + 1] = Len(s1.heap)]
         IN  AllocRows(s2, h, i + 1, rows, columns, failAt)

matrix_allocate(st, h, rows, columns, failAt) ==
    LET s0 == [st EXCEPT !.mat[h].rows = rows, !.mat[h].columns = columns]
    IN  IF failAt = 0
        THEN [st |-> [s0 EXCEPT !.mat[h].content = NULL], ret |-> 0 - 1]
        ELSE LET s1 == Malloc(s0, "ptrs", rows, h)
                 s2 == [s1 EXCEPT !.mat[h].content = Len(s1.heap)]
             IN  AllocRows(s2, h, 0, rows, columns, failAt)

\* ------------------------------------------------------- matrix_free

\* The loop of lines 33-35: free(m->content[i]) for i = from .. rows-1.
RECURSIVE FreeRows(_, _, _)
FreeRows(st, h, i) ==
    IF i >= st.mat[h].rows THEN st
    ELSE LET s1 == [st EXCEPT !.faults = @ \cup RowPtrFaults(st, h, i)]
         IN  FreeRows(Free(s1, RowPtr(st, h, i)), h, i + 1)

\* matrix_free without line 37: the pointer is not reset.
matrix_free_keeps_content(st, h) ==
    LET s1 == IF st.mat[h].content # NULL
              THEN LET t == FreeRows(st, h, 0)
                   IN  Free(t, t.mat[h].content)
              ELSE st
    IN  [s1 EXCEPT !.mat[h].rows = 0, !.mat[h].columns = 0]

matrix_free(st, h) ==
    LET s1 == IF st.mat[h].content # NULL
              THEN LET t == FreeRows(st, h, 0)
                   IN  [Free(t, t.mat[h].content) EXCEPT !.mat[h].content = NULL]
              ELSE st
    IN  [s1 EXCEPT !.mat[h].rows = 0, !.mat[h].columns = 0]

\* ----------------------------------------------------- element access

\* What executing m->content[i][j] does wrong, if anything.
CellFaults(st, h, i, j) ==
    LET pf == RowPtrFaults(st, h, i)
        rp == RowPtr(st, h, i)
    IN  IF pf \ {"use_after_free"} # {} THEN pf
        ELSE pf \cup (IF rp = NULL THEN {"null_deref"}
                      ELSE IF ~IsBlock(st, rp) THEN {"wild_access"}
                      ELSE IF ~st.heap[rp].live THEN {"use_after_free"}
                      ELSE IF j + 1 \notin 1..Len(st.heap[rp].data) THEN {"out_of_bounds"}
                      ELSE {})

\* m->content[i][j] names a cell of a block malloc returned (live or freed).
HasCell(st, h, i, j) ==
    LET rp == RowPtr(st, h, i)
    IN  /\ IsBlock(st, rp)
        /\ st.heap[rp].kind = "ints"
        /\ j + 1 \in 1..Len(st.heap[rp].data)

\* The value of m->content[i][j]: <<v>>, or Unwritten when it is indeterminate.
ReadCell(st, h, i, j) ==
    IF HasCell(st, h, i, j) THEN st.heap[RowPtr(st, h, i)].data[j + 1] ELSE Unwritten

Touch(st, h, i, j) == [st EXCEPT !.faults = @ \cup CellFaults(st, h, i, j)]

\* m->content[i][j] = cell.
WriteCell(st, h, i, j, cell) ==
    LET s1 == Touch(st, h, i, j)
        rp == RowPtr(st, h, i)
    IN  IF HasCell(st, h, i, j) /\ st.heap[rp].live
        THEN [s1 EXCEPT !.heap[rp].data[j + 1] = cell]
        ELSE s1

\* int arithmetic on cells; an indeterminate operand gives an indeterminate
\* result. The values of the model stay far from INT_MAX, so that no signed
\* overflow is modelled.
CellAdd(x, y) == IF x = Unwritten \/ y = Unwritten THEN Unwritten ELSE <<x[1] + y[1]>>
CellMul_adds(x, y) == IF x = Unwritten \/ y = Unwritten THEN Unwritten ELSE <<x[1] + y[1]>>
CellMul(x, y) == IF x = Unwritten \/ y = Unwritten THEN Unwritten ELSE <<x[1] * y[1]>>

\* ------------------------------------------------------ matrix_init_*

\* The loops of lines 45-49, cell k = i * columns + j onwards.
RECURSIVE InitNLoop(_, _, _, _)
InitNLoop(st, h, n, k) ==
    LET rows == st.mat[h].rows
        columns == st.mat[h].columns
    IN  IF k >= rows * columns THEN st
        ELSE InitNLoop(WriteCell(st, h, k \div columns, k % columns, <<n>>), h, n, k + 1)

matrix_init_n(st, h, n) == [st |-> InitNLoop(st, h, n, 0), ret |-> 0]

matrix_init_zeros(st, h) == matrix_init_n(st, h, 0)

\* The loop of lines 63-65.
RECURSIVE DiagLoop(_, _, _)
DiagLoop(st, h, i) ==
    IF i >= st.mat[h].rows THEN st
    ELSE DiagLoop(WriteCell(st, h, i, i, <<1>>), h, i + 1)

matrix_init_identity(st, h) ==
    IF st.mat[h].rows # st.mat[h].columns
    THEN [st |-> st, ret |-> 0 - 1]
    ELSE [st |-> DiagLoop(matrix_init_zeros(st, h).st, h, 0), ret |-> 0]

\* The k-th value rand() returns after srand(seed): the model's generators
\* return seed, seed + 1, seed + 2, ...
Rand(seed, k) == seed + k

\* The loops of lines 75-79.
RECURSIVE RandLoop(_, _, _, _, _, _)
RandLoop(st, h, val_min, val_max, seed, k) ==
    LET rows == st.mat[h].rows
        columns == st.mat[h].columns
        v == val_min + (Rand(seed, k) % (val_max - val_min + 1))
    IN  IF k >= rows * columns THEN st
        ELSE RandLoop(WriteCell(st, h, k \div columns, k % columns, <<v>>),
                      h, val_min, val_max, seed, k + 1)

matrix_init_rand(st, h, val_min, val_max, seed) ==
    IF val_min > val_max
    THEN [st |-> st, ret |-> 0 - 1]
    ELSE [st |-> RandLoop(st, h, val_min, val_max, seed, 0), ret |-> 0]

\* ------------------------------------------------------- matrix_equal

\* The loops of lines 88-94 from cell k on: the state after the reads, and
\* the values the call can return (comparing an indeterminate cell can go
\* either way).
RECURSIVE EqualLoop(_, _, _, _)
EqualLoop(st, m1, m2, k) ==
    LET rows == st.mat[m1].rows
        columns == st.mat[m1].columns
    IN  IF k >= rows * columns THEN [st |-> st, rets |-> {1}]
        ELSE LET i == k \div columns
                 j == k % columns
                 s1 == Touch(Touch(st, m1, i, j), m2, i, j)
                 x == ReadCell(st, m1, i, j)
                 y == ReadCell(st, m2, i, j)
             IN  IF x # Unwritten /\ y # Unwritten
                 THEN IF x # y THEN [st |-> s1, rets |-> {0}]
                      ELSE EqualLoop(s1, m1, m2, k + 1)
                 ELSE LET rest == EqualLoop(s1, m1, m2, k + 1)
                      IN  [st |-> rest.st, rets |-> rest.rets \cup {0}]

matrix_equal(st, m1, m2) ==
    IF st.mat[m1].rows # st.mat[m2].rows \/ st.mat[m1].columns # st.mat[m2].columns
    THEN [st |-> st, rets |-> {0}]
    ELSE EqualLoop(st, m1, m2, 0)

\* ---------------------------------------------------------- arithmetic

\* The loops of lines 106-110.
RECURSIVE SumLoop(_, _, _, _, _)
SumLoop(st, m1, m2, result, k) ==
    LET rows == st.mat[m1].rows
        columns == st.mat[m1].columns
    IN  IF k >= rows * columns THEN st
        ELSE LET i == k \div columns
                 j == k % columns
                 s1 == Touch(Touch(st, m1, i, j), m2, i, j)
                 v == CellAdd(ReadCell(st, m1, i, j), ReadCell(st, m2, i, j))
             IN  SumLoop(WriteCell(s1, result, i, j, v), m1, m2, result, k + 1)

matrix_sum(st, m1, m2, result, failAt) ==
    IF st.mat[m1].rows # st.mat[m2].rows \/ st.mat[m1].columns # st.mat[m2].columns
    THEN [st |-> st, ret |-> 0 - 1]
    ELSE LET al == matrix_allocate(st, result, st.mat[m1].rows, st.mat[m1].columns, failAt)
         IN  IF al.ret # 0 THEN [st |-> al.st, ret |-> 0 - 1]
             ELSE [st |-> SumLoop(al.st, m1, m2, result, 0), ret |-> 0]

\* The loops of lines 119-123.
RECURSIVE ScalarLoop(_, _, _, _, _)
ScalarLoop(st, m, scalar, result, k) ==
    LET rows == st.mat[m].rows
        columns == st.mat[m].columns
    IN  IF k >= rows * columns THEN st
        ELSE LET i == k \div columns
                 j == k % columns
                 s1 == Touch(st, m, i, j)
                 v == CellMul(ReadCell(st, m, i, j), <<scalar>>)
             IN  ScalarLoop(WriteCell(s1, result, i, j, v), m, scalar, result, k + 1)

matrix_scalar_product(st, m, scalar, result, failAt) ==
    LET al == matrix_allocate(st, result, st.mat[m].rows, st.mat[m].columns, failAt)
    IN  IF al.ret # 0 THEN [st |-> al.st, ret |-> 0 - 1]
        ELSE [st |-> ScalarLoop(al.st, m, scalar, result, 0), ret |-> 0]

\* The loops of lines 132-136.
RECURSIVE TransposeLoop(_, _, _, _)
TransposeLoop(st, m, result, k) ==
    LET rows == st.mat[m].rows
        columns == st.mat[m].columns
    IN  IF k >= rows * columns THEN st
        ELSE LET i == k \div columns
                 j == k % columns
                 s1 == Touch(st, m, i, j)
                 v == ReadCell(st, m, i, j)
             IN  TransposeLoop(WriteCell(s1, result, j, i, v), m, result, k + 1)

\* matrix_transposition allocating rows x columns instead of columns x rows.
matrix_transposition_unswapped(st, m, result, failAt) ==
    LET al == matrix_allocate(st, result, st.mat[m].rows, st.mat[m].columns, failAt)
    IN  IF al.ret # 0 THEN [st |-> al.st, ret |-> 0 - 1]
        ELSE [st |-> TransposeLoop(al.st, m, result, 0), ret |-> 0]

matrix_transposition(st, m, result, failAt) ==
    LET al == matrix_allocate(st, result, st.mat[m].columns, st.mat[m].rows, failAt)
    IN  IF al.ret # 0 THEN [st |-> al.st, ret |-> 0 - 1]
        ELSE [st |-> TransposeLoop(al.st, m, result, 0), ret |-> 0]

\* The loop of lines 151-153: result[i][j] += m1[i][k] * m2[k][j], k upwards.
RECURSIVE DotLoop(_, _, _, _, _, _, _)
DotLoop(st, m1, m2, result, i, j, k) ==
    IF k >= st.mat[m1].columns THEN st
    ELSE LET s1 == Touch(Touch(Touch(st, m1, i, k), m2, k, j), result, i, j)
             v == CellAdd(ReadCell(st, result, i, j),
                          CellMul(ReadCell(st, m1, i, k), ReadCell(st, m2, k, j)))
         IN  DotLoop(WriteCell(s1, result, i, j, v), m1, m2, result, i, j, k + 1)

\* The loops of lines 148-155, cell n = i * m2->columns + j onwards.
RECURSIVE ProductLoop(_, _, _, _, _)
ProductLoop(st, m1, m2, result, n) ==
    LET rows == st.mat[m1].rows
        columns == st.mat[m2].columns
    IN  IF n >= rows * columns THEN st
        ELSE LET i == n \div columns
                 j == n % columns
                 s1 == WriteCell(st, result, i, j, <<0>>)
             IN  ProductLoop(DotLoop(s1, m1, m2, result, i, j, 0), m1, m2, result, n + 1)

matrix_product(st, m1, m2, result, failAt) ==
    IF st.mat[m1].columns # st.mat[m2].rows
    THEN [st |-> st, ret |-> 0 - 1]
    ELSE LET al == matrix_allocate(st, result, st.mat[m1].rows, st.mat[m2].columns, failAt)
         IN  IF al.ret # 0 THEN [st |-> al.st, ret |-> 0 - 1]
             ELSE [st |-> ProductLoop(al.st, m1, m2, result, 0), ret |-> 0]

\* ------------------------------------------------------ the text file

\* char line[1024]
LINE_SIZE == 1024

Digits == <<"0", "1", "2", "3", "4", "5", "6", "7", "8", "9">>
DigitValue(c) == (CHOOSE d \in 1..10 : Digits[d] = c) - 1
IsDigit(c) == \E d \in 1..10 : Digits[d] = c
\* isspace, for the characters of the model's texts
IsSpace(c) == c \in {" ", "\n"}

Minimum(S) == CHOOSE x \in S : \A y \in S : x <= y

\* fgets(line, size, file) with the file position before character pos: the
\* characters up to and including the next newline, size - 1 of them at most.
fgets(text, pos, size) ==
    LET limit == IF Len(text) < pos + size - 2 THEN Len(text) ELSE pos + size - 2
        newlines == {i \in pos..limit : text[i] = "\n"}
    IN  SubSeq(text, pos, IF newlines = {} THEN limit ELSE Minimum(newlines))

\* The lines the loop while (fgets(line, sizeof(line), file)) sees, from
\* position pos to the end of the file.
RECURSIVE ReadLines(_, _)
ReadLines(text, pos) ==
    IF pos > Len(text) THEN <<>>
    ELSE LET line == fgets(text, pos, LINE_SIZE)
         IN  <<line>> \o ReadLines(text, pos + Len(line))

\* The skip test with its second disjunct dropped.
Skipped_empty_only(line) == Len(line) = 0

\* strlen(line) == 0 || line[0] == '\n'
Skipped(line) == Len(line) = 0 \/ line[1] = "\n"

\* strtok_r(.., " ", &saveptr) with saveptr at pos: the tokens from there on.
RECURSIVE strtok_r(_, _)
strtok_r(line, pos) ==
    LET rest == {i \in pos..Len(line) : line[i] # " "}
    IN  IF rest = {} THEN <<>>
        ELSE LET start == Minimum(rest)
                 stops == {i \in start..Len(line) : line[i] = " "}
                 stop == IF stops = {} THEN Len(line) + 1 ELSE Minimum(stops)
             IN  <<SubSeq(line, start, stop - 1)>> \o strtok_r(line, stop + 1)

\* The digits of atoi's argument from position pos on, added to acc.
RECURSIVE AtoiDigits(_, _, _)
AtoiDigits(token, pos, acc) ==
    IF pos > Len(token) \/ ~IsDigit(token[pos]) THEN acc
    ELSE AtoiDigits(token, pos + 1, 10 * acc + DigitValue(token[pos]))

\* atoi: white space, a sign, then digits; 0 when no digit follows. The
\* tokens of the model are too short for the value to leave the range of int.
atoi(token) ==
    LET body == {i \in 1..Len(token) : ~IsSpace(token[i])}
        start == IF body = {} THEN Len(token) + 1 ELSE Minimum(body)
    IN  IF start <= Len(token) /\ token[start] = "-"
        THEN 0 - AtoiDigits(token, start + 1, 0)
        ELSE IF start <= Len(token) /\ token[start] = "+"
        THEN AtoiDigits(token, start + 1, 0)
        ELSE AtoiDigits(token, start, 0)

\* The first pass, lines 185-199, from line n on: rows and columns.
RECURSIVE FirstPass(_, _, _, _)
FirstPass(lines, n, rows, columns) ==
    IF n > Len(lines) THEN [rows |-> rows, columns |-> columns]
    ELSE IF Skipped(lines[n]) THEN FirstPass(lines, n + 1, rows, columns)
    ELSE FirstPass(lines, n + 1, rows + 1,
                   IF rows = 0 THEN columns + Len(strtok_r(lines[n], 1)) ELSE columns)

\* The store of line 221 without the guard of line 220.
Stores_unguarded(col, columns) == TRUE

\* if (col < columns), line 220
Stores(col, columns) == col < columns

\* The loop of lines 219-225 over the tokens of one line, from token t on.
RECURSIVE StoreTokens(_, _, _, _, _, _, _)
StoreTokens(st, h, tokens, t, row, col, columns) ==
    IF t > Len(tokens) THEN st
    ELSE IF Stores(col, columns)
    THEN StoreTokens(WriteCell(st, h, row, col, <<atoi(tokens[t])>>),
                     h, tokens, t + 1, row, col + 1, columns)
    ELSE StoreTokens(st, h, tokens, t + 1, row, col, columns)

\* The second pass, lines 210-227, from line n on: the state after it and the
\* final value of row.
RECURSIVE SecondPass(_, _, _, _, _, _)
SecondPass(st, h, lines, n, row, columns) ==
    IF n > Len(lines) THEN [st |-> st, row |-> row]
    ELSE IF Skipped(lines[n]) THEN SecondPass(st, h, lines, n + 1, row, columns)
    ELSE SecondPass(StoreTokens(st, h, strtok_r(lines[n], 1), 1, row, 0, columns),
                    h, lines, n + 1, row + 1, columns)

\* opened says whether fopen succeeded. The result also carries the final
\* value of row (0 when the second pass did not run).
matrix_allocate_and_init_file(st, h, text, opened, failAt) ==
    IF ~opened THEN [st |-> st, ret |-> 0 - 1, row |-> 0]
    ELSE LET lines == ReadLines(text, 1)
             dims == FirstPass(lines, 1, 0, 0)
             al == matrix_allocate(st, h, dims.rows, dims.columns, failAt)
         IN  IF al.ret # 0 THEN [st |-> al.st, ret |-> 0 - 1, row |-> 0]
             ELSE LET second == SecondPass(al.st, h, lines, 1, 0, dims.columns)
                  IN  [st |-> second.st, ret |-> 0, row |-> second.row]

\* The decimal digits of n > 0, after those of the higher places.
RECURSIVE DecimalDigits(_)
DecimalDigits(n) ==
    IF n = 0 THEN <<>> ELSE DecimalDigits(n \div 10) \o <<Digits[(n % 10) + 1]>>

\* What "%d" prints.
FormatD(v) ==
    IF v = 0 THEN <<"0">>
    ELSE IF v < 0 THEN <<"-">> \o DecimalDigits(0 - v)
    ELSE DecimalDigits(v)

\* The loop of lines 166-169 over row i from column j on: the text written.
\* A cell never written reads as junk.
RECURSIVE DumpCells(_, _, _, _, _)
DumpCells(st, h, junk, i, j) ==
    IF j >= st.mat[h].columns THEN <<"\n">>
    ELSE LET cell == ReadCell(st, h, i, j)
             v == IF cell = Unwritten THEN junk ELSE cell[1]
         IN  FormatD(v) \o <<" ">> \o DumpCells(st, h, junk, i, j + 1)

\* The loop of lines 165-170 from row i on.
RECURSIVE DumpRows(_, _, _, _)
DumpRows(st, h, junk, i) ==
    IF i >= st.mat[h].rows THEN <<>>
    ELSE DumpCells(st, h, junk, i, 0) \o DumpRows(st, h, junk, i + 1)

\* opened says whether fopen succeeded; text is what the file then holds.
matrix_dump_file(st, h, text, opened, junk) ==
    IF ~opened THEN [st |-> st, ret |-> 0 - 1, text |-> text]
    ELSE [st |-> [st EXCEPT !.faults = @ \cup UNION {CellFaults(st, h, i, j) :
                        i \in 0..(st.mat[h].rows - 1), j \in 0..(st.mat[h].columns - 1)}],
          ret |-> 0,
          text |-> DumpRows(st, h, junk, 0)]

\* ------------------------------------------------------------- actions

\* The program state a call starts from; its faults are those of the call.
St == [mat |-> mat, heap |-> heap, faults |-> {}]

\* Undefined behaviour after which the process may be gone.
Fatal == {"null_deref", "wild_access", "wild_free", "use_after_free",
          "double_free", "out_of_bounds", "uninit_read"}

\* The call op(h, a, b) ended in state st returning ret, with the file holding
\* text; allocs says whether it called matrix_allocate on h, and row is the
\* row counter a file read ended with.
Commit(st, ret, op, h, a, b, allocs, text, row) ==
    /\ ~crashed
    /\ mat' = st.mat
    /\ heap' = st.heap
    /\ faults' = faults \cup st.faults
    /\ crashed' \in (IF st.faults \cap Fatal # {} THEN BOOLEAN ELSE {FALSE})
    /\ file' = text
    /\ last' = [op |-> op, ret |-> ret, h |-> h, a |-> a, b |-> b,
                base |-> Len(heap), faults |-> st.faults, row |-> row]
    /\ pending' = IF op = "free" THEN pending \ {h}
                  ELSE IF allocs THEN pending \cup {h} ELSE pending
    /\ paired' = IF allocs THEN paired /\ h \notin pending ELSE paired

\* The rows + 1 blocks of one more matrix fit the bound.
Room(rows, bound) == Len(heap) + rows + 1 <= bound

Allocate(h, rows, columns, failAt) ==
    LET res == matrix_allocate(St, h, rows, columns, failAt)
    IN  /\ Room(rows, MaxBlocks)
        /\ Commit(res.st, res.ret, "allocate", h, h, h, TRUE, file, 0)

Release(h) ==
    Commit(matrix_free(St, h), 0, "free", h, h, h, FALSE, file, 0)

InitN(h, n) ==
    LET res == matrix_init_n(St, h, n)
    IN  Commit(res.st, res.ret, "init_n", h, h, h, FALSE, file, 0)

InitZeros(h) ==
    LET res == matrix_init_zeros(St, h)
    IN  Commit(res.st, res.ret, "init_zeros", h, h, h, FALSE, file, 0)

InitIdentity(h) ==
    LET res == matrix_init_identity(St, h)
    IN  Commit(res.st, res.ret, "init_identity", h, h, h, FALSE, file, 0)

InitRand(h, val_min, val_max, seed) ==
    LET res == matrix_init_rand(St, h, val_min, val_max, seed)
    IN  Commit(res.st, res.ret, "init_rand", h, h, h, FALSE, file, 0)

Equal(m1, m2) ==
    LET res == matrix_equal(St, m1, m2)
    IN  \E ret \in res.rets :
           Commit(res.st, ret, "equal", m1, m1, m2, FALSE, file, 0)

Sum(m1, m2, result, failAt) ==
    LET res == matrix_sum(St, m1, m2, result, failAt)
        called == mat[m1].rows = mat[m2].rows /\ mat[m1].columns = mat[m2].columns
    IN  /\ called => Room(mat[m1].rows, MaxHeap)
        /\ Commit(res.st, res.ret, "sum", result, m1, m2, called, file, 0)

ScalarProduct(m, scalar, result, failAt) ==
    LET res == matrix_scalar_product(St, m, scalar, result, failAt)
    IN  /\ Room(mat[m].rows, MaxHeap)
        /\ Commit(res.st, res.ret, "scalar_product", result, m, m, TRUE, file, 0)

Transposition(m, result, failAt) ==
    LET res == matrix_transposition(St, m, result, failAt)
    IN  /\ Room(mat[m].columns, MaxHeap)
        /\ Commit(res.st, res.ret, "transposition", result, m, m, TRUE, file, 0)

Product(m1, m2, result, failAt) ==
    LET res == matrix_product(St, m1, m2, result, failAt)
        called == mat[m1].columns = mat[m2].rows
    IN  /\ called => Room(mat[m1].rows, MaxHeap)
        /\ Commit(res.st, res.ret, "product", result, m1, m2, called, file, 0)

\* What the first pass finds in the file.
FileDims == FirstPass(ReadLines(file, 1), 1, 0, 0)

Load(h, opened, failAt) ==
    LET res == matrix_allocate_and_init_file(St, h, file, opened, failAt)
    IN  /\ opened => Room(FileDims.rows, MaxHeap)
        /\ Commit(res.st, res.ret, "load", h, h, h, opened, file, res.row)

Dump(h, opened, junk) ==
    LET res == matrix_dump_file(St, h, file, opened, junk)
    IN  Commit(res.st, res.ret, "dump", h, h, h, FALSE, res.text, 0)

\* ------------------------------------------------------ specifications

NoCall == [op |-> "none", ret |-> 0, h |-> "a", a |-> "a", b |-> "a",
           base |-> 0, faults |-> {}, row |-> 0]

\* The state of a program that has called nothing: every matrix_t the caller
\* holds is empty and nothing is allocated.
Fresh == [mat |-> [h \in Handles |-> Empty], heap |-> <<>>, faults |-> {}]

StartsAs(st) ==
    /\ mat = st.mat
    /\ heap = st.heap
    /\ faults = {}
    /\ last = NoCall
    /\ pending = {h \in Handles : st.mat[h].content # NULL}
    /\ paired = TRUE
    /\ crashed = FALSE

Init ==
    /\ StartsAs(Fresh)
    /\ file = <<>>

\* The matrix the lifecycle runs allocate and release.
LifeHandles == {"a"}

\* Allocation and release alone.
NextLife ==
    \/ \E h \in LifeHandles, rows \in Dims, columns \in Dims :
         \E failAt \in 0..(rows + 1) : Allocate(h, rows, columns, failAt)
    \/ \E h \in LifeHandles : Release(h)

SpecLife == Init /\ [][NextLife]_vars

\* matrix_allocate succeeding on h, then matrix_init_rand filling it.
Filled(st, h, rows, columns, val_min, val_max, seed) ==
    matrix_init_rand(matrix_allocate(st, h, rows, columns, rows + 1).st,
                     h, val_min, val_max, seed).st

\* The arithmetic runs start with the operand a allocated, of any dimensions,
\* and initialised by matrix_init_rand; b and r are empty.
InitArith ==
    /\ \E rows \in Dims, columns \in Dims, seed \in 0..MaxRand :
         \E val_min \in Values, val_max \in Values :
            /\ val_min <= val_max
            /\ StartsAs(Filled(Fresh, "a", rows, columns, val_min, val_max, seed))
    /\ file = <<>>

\* The caller passes as the result a matrix_t that is still empty and is not
\* an operand of the call: r for the first call, b for the second.
ResultFor(operands) ==
    (IF mat["r"] = Empty THEN {"r"} ELSE IF mat["b"] = Empty THEN {"b"} ELSE {})
        \ operands

\* Arithmetic into fresh results, and comparison with the operand a.
NextArith ==
    \/ \E m1 \in Handles : Equal(m1, "a")
    \/ \E m1 \in Handles, m2 \in Handles :
         \E result \in ResultFor({m1, m2}), failAt \in 0..(mat[m1].rows + 1) :
            Sum(m1, m2, result, failAt)
    \/ \E m \in Handles, scalar \in Values :
         \E result \in ResultFor({m}), failAt \in 0..(mat[m].rows + 1) :
            ScalarProduct(m, scalar, result, failAt)
    \/ \E m \in Handles :
         \E result \in ResultFor({m}), failAt \in 0..(mat[m].columns + 1) :
            Transposition(m, result, failAt)
    \/ \E m1 \in Handles, m2 \in Handles :
         \E result \in ResultFor({m1, m2}), failAt \in 0..(mat[m1].rows + 1) :
            Product(m1, m2, result, failAt)

SpecArith == InitArith /\ [][NextArith]_vars

\* Transposition and product into fresh results.
NextProduct ==
    \/ \E m1 \in Handles : Equal(m1, "a")
    \/ \E m \in Handles :
         \E result \in ResultFor({m}), failAt \in 0..(mat[m].columns + 1) :
            Transposition(m, result, failAt)
    \/ \E m1 \in Handles, m2 \in Handles :
         \E result \in ResultFor({m1, m2}), failAt \in 0..(mat[m1].rows + 1) :
            Product(m1, m2, result, failAt)

SpecProduct == InitArith /\ [][NextProduct]_vars

\* One call of arithmetic whose result is one of its operands.
NextAlias ==
    /\ last = NoCall
    /\ \/ \E m1 \in Handles, m2 \in Handles :
            \E result \in {m1, m2}, failAt \in 0..(mat[m1].rows + 1) :
               Sum(m1, m2, result, failAt)
       \/ \E m \in Handles, scalar \in Values :
            \E failAt \in 0..(mat[m].rows + 1) : ScalarProduct(m, scalar, m, failAt)
       \/ \E m \in Handles :
            \E failAt \in 0..(mat[m].columns + 1) : Transposition(m, m, failAt)
       \/ \E m1 \in Handles, m2 \in Handles :
            \E result \in {m1, m2}, failAt \in 0..(mat[m1].rows + 1) :
               Product(m1, m2, result, failAt)

SpecAlias == InitArith /\ [][NextAlias]_vars

\* The characters of the model's files, and the files a text run starts with.
Alphabet == {"1", "-", " ", "\n"}
Texts == UNION {[1..n -> Alphabet] : n \in 0..MaxText}

InitText ==
    /\ StartsAs(Fresh)
    /\ file \in Texts

\* The matrices that hold storage.
Stored == {h \in Handles : mat[h].content # NULL}

\* Reading the file into fresh matrices, and writing stored matrices to it.
NextText ==
    \/ \E h \in ResultFor({}), opened \in BOOLEAN :
         \E failAt \in 0..(FileDims.rows + 1) : Load(h, opened, failAt)
    \/ \E h \in Stored, opened \in BOOLEAN, junk \in {0} : Dump(h, opened, junk)

SpecText == InitText /\ [][NextText]_vars

\* The whole library.
Next ==
    \/ NextLife
    \/ \E h \in Handles, n \in Values : InitN(h, n)
    \/ \E h \in Handles : InitZeros(h)
    \/ \E h \in Handles : InitIdentity(h)
    \/ \E h \in Handles, val_min \in Values, val_max \in Values :
         \E seed \in 0..MaxRand : InitRand(h, val_min, val_max, seed)
    \/ NextArith
    \/ NextText

Spec == Init /\ [][Next]_vars

\* ----------------------------------------------- what the claims speak of

\* The program state after the step.
StNext == [mat |-> mat', heap |-> heap', faults |-> {}]

\* The blocks the last call got from malloc.
NewBlocks == (last.base + 1)..Len(heap)

\* h refers to live storage of its own dimensions: a row-pointer array of
\* rows pointers, each to a live row of columns cells.
WellFormed(st, h) ==
    LET m == st.mat[h]
    IN  /\ IsLive(st, m.content)
        /\ st.heap[m.content].kind = "ptrs"
        /\ Len(st.heap[m.content].data) = m.rows
        /\ \A i \in 0..(m.rows - 1) :
              LET rp == RowPtr(st, h, i)
              IN  /\ IsLive(st, rp)
                  /\ st.heap[rp].kind = "ints"
                  /\ Len(st.heap[rp].data) = m.columns

\* Every element of h has been written.
Initialised(st, h) ==
    /\ WellFormed(st, h)
    /\ \A i \in 0..(st.mat[h].rows - 1), j \in 0..(st.mat[h].columns - 1) :
          ReadCell(st, h, i, j) # Unwritten

\* h refers to storage that has been freed.
Dangling(st, h) == IsBlock(st, st.mat[h].content) /\ ~IsLive(st, st.mat[h].content)

\* ------------------------------------------------------------------ C1

\* C1: whenever matrix_allocate reports failure, the matrix is left empty:
\* rows = 0, columns = 0 and content refers to no storage.
C1_FailedAllocateLeavesEmpty ==
    (last.op = "allocate" /\ last.ret # 0) => mat[last.h] = Empty

\* ------------------------------------------------------------------ C2

\* C2: as long as every matrix_allocate on a matrix is followed by a
\* matrix_free on it, no block is freed twice, no freed block is read, and
\* after the matrix_free no block allocated for the matrix is still live.
C2_AllocateThenFreeIsSafe ==
    paired =>
        /\ faults \cap {"double_free", "use_after_free"} = {}
        /\ last.op = "free" =>
              \A p \in 1..Len(heap) : heap[p].owner = last.h => ~heap[p].live

\* ------------------------------------------------------------------ C3

\* C3: matrix_free right after a successful matrix_allocate(m, r, c) leaves m
\* empty, with the row-pointer array and each of the r rows freed exactly
\* once; matrix_free on an empty matrix frees nothing and changes nothing.
C3_FreeAfterAllocate ==
    [][ /\ (last.op = "allocate" /\ last.ret = 0 /\ last'.op = "free" /\ last'.h = last.h) =>
             /\ mat'[last.h] = Empty
             /\ last'.faults = {}
             /\ Cardinality(NewBlocks) = mat[last.h].rows + 1
             /\ Len(heap') = Len(heap)
             /\ \A p \in NewBlocks :
                   /\ heap[p].live /\ heap[p].frees = 0
                   /\ ~heap'[p].live /\ heap'[p].frees = 1
             /\ \A p \in 1..last.base : heap'[p] = heap[p]
        /\ (last'.op = "free" /\ mat[last'.h] = Empty) =>
             /\ mat' = mat
             /\ heap' = heap
             /\ last'.faults = {}
      ]_vars

\* A matrix of two rows was allocated, freed, and freed again.
C3_Witness ==
    /\ last.op = "free"
    /\ mat[last.h] = Empty
    /\ last.base = Len(heap)
    /\ faults = {}
    /\ pending = {}
    /\ \E p \in 1..Len(heap) : heap[p].kind = "ptrs" /\ Len(heap[p].data) = 2
    /\ \A p \in 1..Len(heap) : ~heap[p].live /\ heap[p].frees = 1

\* ------------------------------------------------------------------ C4

\* The dimensions and the elements of h.
View(st, h) ==
    [rows |-> st.mat[h].rows,
     columns |-> st.mat[h].columns,
     cells |-> [i \in 0..(st.mat[h].rows - 1), j \in 0..(st.mat[h].columns - 1) |->
                   ReadCell(st, h, i, j)]]

\* C4: round trip. When matrix_allocate_and_init_file has read a file that
\* matrix_dump_file wrote from an initialised matrix m of at least one row and
\* one column, matrix_equal(parsed, m) is true.
C4_DumpLoadRoundTrip ==
    (last.op = "load" /\ last.ret = 0) =>
        \A m \in Handles \ {last.h} :
            ( /\ Initialised(St, m)
              /\ mat[m].rows >= 1
              /\ mat[m].columns >= 1
              /\ file = DumpRows(St, m, 0, 0) )
            => matrix_equal(St, last.h, m).rets = {1}

\* ------------------------------------------------------------------ C6

\* The text without its lines that consist of only a newline: every newline
\* that starts the text or follows a newline is removed.
RECURSIVE StripBlankFrom(_, _)
StripBlankFrom(text, pos) ==
    IF pos > Len(text) THEN <<>>
    ELSE IF text[pos] = "\n" /\ (pos = 1 \/ text[pos - 1] = "\n")
    THEN StripBlankFrom(text, pos + 1)
    ELSE <<text[pos]>> \o StripBlankFrom(text, pos + 1)

StripBlank(text) == StripBlankFrom(text, 1)

\* What matrix_allocate_and_init_file makes of text when no malloc fails.
Parsed(text) ==
    LET rows == FirstPass(ReadLines(text, 1), 1, 0, 0).rows
        res == matrix_allocate_and_init_file(Fresh, "r", text, TRUE, rows + 1)
    IN  [ret |-> res.ret, view |-> View(res.st, "r")]

\* C6: blank-line tolerance. The matrix matrix_allocate_and_init_file reads
\* from a file has the rows, the columns and the elements of the matrix it
\* reads from the same file with the newline-only lines removed.
C6_BlankLinesIgnored ==
    (last.op = "load" /\ last.ret = 0) =>
        /\ Parsed(StripBlank(file)).ret = 0
        /\ View(St, last.h) = Parsed(StripBlank(file)).view

\* A file with a blank line before its data line and another one between two
\* data lines has been read.
C6_Witness ==
    /\ last.op = "load"
    /\ last.ret = 0
    /\ mat[last.h].rows = 2
    /\ Len(file) >= 4
    /\ file[1] = "\n"
    /\ \E p \in 3..Len(file) : file[p] = "\n" /\ file[p - 1] = "\n"

\* ------------------------------------------------------------------ C10

\* The lines of the text that are not skipped, as sequences of tokens.
RECURSIVE DataLinesFrom(_, _)
DataLinesFrom(lines, n) ==
    IF n > Len(lines) THEN <<>>
    ELSE IF Len(lines[n]) = 0 \/ lines[n][1] = "\n" THEN DataLinesFrom(lines, n + 1)
    ELSE <<strtok_r(lines[n], 1)>> \o DataLinesFrom(lines, n + 1)

DataLines(text) == DataLinesFrom(ReadLines(text, 1), 1)

\* C10: after matrix_allocate_and_init_file succeeds, no write of the second
\* pass fell outside the allocated rows x columns cells, the second pass
\* visited as many data lines as the matrix has rows, and element (i, j) holds
\* token j of data line i for j < columns; the further tokens are stored
\* nowhere.
C10_SecondPassInBounds ==
    (last.op = "load" /\ last.ret = 0) =>
        LET data == DataLines(file)
            m == mat[last.h]
        IN  /\ last.faults = {}
            /\ WellFormed(St, last.h)
            /\ last.row = m.rows
            /\ Len(data) = m.rows
            /\ m.rows > 0 => m.columns = Len(data[1])
            /\ \A i \in 0..(m.rows - 1), j \in 0..(m.columns - 1) :
                  ReadCell(St, last.h, i, j) =
                     IF j < Len(data[i + 1]) THEN <<atoi(data[i + 1][j + 1])>>
                     ELSE Unwritten

\* A file whose second data line has more tokens than its first has been read.
C10_Witness ==
    /\ last.op = "load"
    /\ last.ret = 0
    /\ last.faults = {}
    /\ mat[last.h].rows = 2
    /\ Len(DataLines(file)[2]) > mat[last.h].columns

\* ------------------------------------------------------------------ C5

\* C5: matrix_sum on initialised operands ends either with 0 and result a
\* fully allocated, fully populated matrix of the operands' dimensions, or
\* with -1 and nothing for the caller to free: nothing allocated on a
\* dimension mismatch, everything allocated released on an allocation
\* failure, and result not referring to freed storage.
C5_SumAllOrNothing ==
    (last.op = "sum" /\ Initialised(St, last.a) /\ Initialised(St, last.b)) =>
        \/ /\ last.ret = 0
           /\ Initialised(St, last.h)
           /\ mat[last.h].rows = mat[last.a].rows
           /\ mat[last.h].columns = mat[last.a].columns
        \/ /\ last.ret = 0 - 1
           /\ \A p \in NewBlocks : ~heap[p].live
           /\ ~Dangling(St, last.h)
           /\ (mat[last.a].rows # mat[last.b].rows
                  \/ mat[last.a].columns # mat[last.b].columns) => NewBlocks = {}

\* ------------------------------------------------------------------ C7

ArithmeticOps == {"sum", "scalar_product", "transposition", "product"}

\* The blocks of h: its row-pointer array and the rows it points to.
Storage(st, h) ==
    {st.mat[h].content} \cup
        (IF IsBlock(st, st.mat[h].content) /\ st.heap[st.mat[h].content].kind = "ptrs"
         THEN {RowPtr(st, h, i) : i \in 0..(Len(st.heap[st.mat[h].content].data) - 1)}
         ELSE {})

\* C7: every call of matrix_sum, matrix_scalar_product, matrix_transposition
\* and matrix_product leaves the rows, the columns and the elements of its
\* operands as they were, and on success the result's storage was allocated
\* by the call and no block of it belongs to an operand.
C7_OperandsUnchanged ==
    [][ last'.op \in ArithmeticOps =>
           /\ \A m \in {last'.a, last'.b} :
                 /\ mat'[m] = mat[m]
                 /\ View(StNext, m) = View(St, m)
           /\ last'.ret = 0 =>
                 /\ \A p \in Storage(StNext, last'.h) : p > Len(heap)
                 /\ \A m \in {last'.a, last'.b} :
                       Storage(StNext, last'.h) \cap Storage(StNext, m) = {}
      ]_vars

\* ------------------------------------------------------------------ C8

\* m1[i][0] * m2[0][j] + ... taken from term k on, in increasing k, added to acc.
RECURSIVE OrderedSum(_, _, _, _, _, _, _)
OrderedSum(st, m1, m2, i, j, k, acc) ==
    IF k >= st.mat[m1].columns THEN acc
    ELSE OrderedSum(st, m1, m2, i, j, k + 1,
                    acc + ReadCell(st, m1, i, k)[1] * ReadCell(st, m2, k, j)[1])

\* C8: matrix_product on initialised operands fails without allocating when
\* m1.columns # m2.rows; otherwise it returns 0 unless a malloc failed and
\* left result without live storage, and then with a
\* result of m1.rows x m2.columns whose element (i, j) is the sum over
\* k = 0 .. m1.columns - 1, in that order from 0, of m1[i][k] * m2[k][j].
C8_ProductChecksAndSums ==
    (last.op = "product" /\ Initialised(St, last.a) /\ Initialised(St, last.b)) =>
        /\ mat[last.a].columns # mat[last.b].rows =>
              /\ last.ret = 0 - 1
              /\ NewBlocks = {}
              /\ mat[last.h] = Empty
        /\ (mat[last.a].columns = mat[last.b].rows /\ last.ret # 0) =>
              ~IsLive(St, mat[last.h].content)
        /\ (mat[last.a].columns = mat[last.b].rows /\ last.ret = 0) =>
              /\ last.faults = {}
              /\ WellFormed(St, last.h)
              /\ mat[last.h].rows = mat[last.a].rows
              /\ mat[last.h].columns = mat[last.b].columns
              /\ \A i \in 0..(mat[last.a].rows - 1), j \in 0..(mat[last.b].columns - 1) :
                    ReadCell(St, last.h, i, j) =
                       <<OrderedSum(St, last.a, last.b, i, j, 0, 0)>>

\* A product over an inner dimension of two gave an element other than 0.
C8_Witness ==
    /\ last.op = "product"
    /\ last.ret = 0
    /\ Initialised(St, last.a)
    /\ Initialised(St, last.b)
    /\ mat[last.a].columns = 2
    /\ \E i \in 0..(mat[last.h].rows - 1), j \in 0..(mat[last.h].columns - 1) :
          ReadCell(St, last.h, i, j) \notin {Unwritten, <<0>>}

\* ------------------------------------------------------------------ C9

\* C9: matrix_transposition of an initialised m of any shape succeeds with a
\* result of m.columns x m.rows and result[j][i] = m[i][j]; when m is itself
\* the transposition of an initialised matrix, matrix_equal of the result and
\* that matrix is true.
C9_TransposeInvolution ==
    [][ (last'.op = "transposition" /\ last'.ret = 0 /\ Initialised(St, last'.a)) =>
           /\ mat'[last'.h].rows = mat[last'.a].columns
           /\ mat'[last'.h].columns = mat[last'.a].rows
           /\ WellFormed(StNext, last'.h)
           /\ \A i \in 0..(mat[last'.a].rows - 1), j \in 0..(mat[last'.a].columns - 1) :
                 ReadCell(StNext, last'.h, j, i) = ReadCell(St, last'.a, i, j)
           /\ (last.op = "transposition" /\ last.ret = 0 /\ last.h = last'.a
                  /\ Initialised(St, last.a)) =>
                 matrix_equal(StNext, last'.h, last.a).rets = {1}
      ]_vars

\* The matrix a, which is not square, was transposed into r and r into b.
C9_Witness ==
    /\ last.op = "transposition"
    /\ last.ret = 0
    /\ last.a = "r"
    /\ last.h = "b"
    /\ Initialised(St, "a")
    /\ mat["a"].rows # mat["a"].columns
    /\ mat["a"].rows >= 1
    /\ mat["a"].columns >= 1
    /\ mat["r"].rows = mat["a"].columns
    /\ \A i \in 0..(mat["a"].rows - 1), j \in 0..(mat["a"].columns - 1) :
          ReadCell(St, "r", j, i) = ReadCell(St, "a", i, j)
    /\ View(St, "b") = View(St, "a")

====
